---------------------------- MODULE Spec2Model ----------------------------
(***************************************************************************)
(* Model of streamlit_app.py: the recipe request builder                   *)
(* (OpenRouterRecipeGenerator.generate_recipe) and the result              *)
(* classification done by main().                                          *)
(*                                                                         *)
(* Python str values are TLA+ strings; Len, \o and SubSeq act on them      *)
(* character by character.  The module text is ASCII, so the one non-ASCII *)
(* character the program's logic depends on, U+274C (the cross mark that   *)
(* opens the failure messages), is written "#"; "#" is used for nothing    *)
(* else.                                                                   *)
(***************************************************************************)
EXTENDS Integers, Sequences, FiniteSets

(***************************************************************************)
(* The values of the model.  Every record is built by one of these         *)
(* constructors, with its fields in one fixed order.                       *)
(***************************************************************************)

\* A parsed JSON value: t is the Python type of the value, s the text of a
\* str, n the value of an int (1 or 0 for a bool), items the elements of a
\* list or the members of a dict.
JStr(s)      == [s |-> s,  n |-> 0, t |-> "str",  items |-> << >>]
JInt(n)      == [s |-> "", n |-> n, t |-> "int",  items |-> << >>]
JBool(b)     == [s |-> "", n |-> IF b THEN 1 ELSE 0, t |-> "bool", items |-> << >>]
JNone        == [s |-> "", n |-> 0, t |-> "None", items |-> << >>]
JList(items) == [s |-> "", n |-> 0, t |-> "list", items |-> items]
JDict(items) == [s |-> "", n |-> 0, t |-> "dict", items |-> items]

\* the result of a parse step: the value, the position after it, and whether
\* the step succeeded
POk(v, next) == [v |-> v, next |-> next, ok |-> TRUE]
PFail        == [v |-> JNone, next |-> 0, ok |-> FALSE]

\* a member of a dict
Member(k, v) == [v |-> v, k |-> k]

\* the result of a step that may raise: the value, or the class of the
\* exception and its str()
Value(v)        == [v |-> v, raised |-> FALSE, cls |-> "", msg |-> ""]
Raise(cls, msg) == [v |-> JNone, raised |-> TRUE, cls |-> cls, msg |-> msg]

\* what a call of requests.post produces: a response, or an exception
Response(status_code, text) ==
    [cls |-> "", msg |-> "", status_code |-> status_code, text |-> text, kind |-> "response"]
Raised(cls, msg) ==
    [cls |-> cls, msg |-> msg, status_code |-> 0, text |-> "", kind |-> "raise"]
NoOutcome ==
    [cls |-> "", msg |-> "", status_code |-> 0, text |-> "", kind |-> "none"]

\* the JSON payload and the timeout handed to requests.post
Message(role, content) == [role |-> role, content |-> content]
ChatRequest(model, messages, max_tokens, timeout) ==
    [model |-> model, messages |-> messages, max_tokens |-> max_tokens, timeout |-> timeout]

\* what the page shows
View(panel, shown, download) == [panel |-> panel, shown |-> shown, download |-> download]

(***************************************************************************)
(* Python str operations used by the program.                              *)
(***************************************************************************)

\* U+274C, the first character of the messages of lines 156, 158 and 261.
FailureGlyph == "#"

\* s[i:j] with Python's clipping of the bounds (positions count from 1, j inclusive)
Slice(s, i, j) ==
    LET lo == IF i < 1 THEN 1 ELSE i
        hi == IF j > Len(s) THEN Len(s) ELSE j
    IN  IF lo > hi THEN "" ELSE SubSeq(s, lo, hi)

\* the character at position i, "" past the end
CharAt(s, i) == Slice(s, i, i)

\* str.startswith
StartsWith(s, p) == Len(s) >= Len(p) /\ SubSeq(s, 1, Len(p)) = p

\* the operator `sub in s` on str
Contains(s, sub) ==
    \E i \in 1..(Len(s) - Len(sub) + 1) : SubSeq(s, i, i + Len(sub) - 1) = sub

UpperLetters == "ABCDEFGHIJKLMNOPQRSTUVWXYZ"
LowerLetters == "abcdefghijklmnopqrstuvwxyz"

LowerChar(c) ==
    IF \E i \in 1..Len(UpperLetters) : CharAt(UpperLetters, i) = c
    THEN CharAt(LowerLetters, CHOOSE i \in 1..Len(UpperLetters) : CharAt(UpperLetters, i) = c)
    ELSE c

RECURSIVE Lower(_)
\* str.lower
Lower(s) == IF s = "" THEN "" ELSE LowerChar(CharAt(s, 1)) \o Lower(Tail(s))

IsSpace(c) == c \in {" ", "\t", "\n", "\r"}

RECURSIVE LStrip(_)
LStrip(s) == IF s # "" /\ IsSpace(CharAt(s, 1)) THEN LStrip(Tail(s)) ELSE s

RECURSIVE RStrip(_)
RStrip(s) ==
    IF s # "" /\ IsSpace(CharAt(s, Len(s))) THEN RStrip(SubSeq(s, 1, Len(s) - 1)) ELSE s

\* str.strip
Strip(s) == RStrip(LStrip(s))

Digits == "0123456789"

RECURSIVE IntToStr(_)
\* str() of a non-negative int
IntToStr(n) ==
    IF n < 10 THEN CharAt(Digits, n + 1)
    ELSE IntToStr(n \div 10) \o CharAt(Digits, (n % 10) + 1)

(***************************************************************************)
(* json.loads / response.json() on the JSON values defined above.  The     *)
(* grammar is JSON without insignificant whitespace, string escapes,       *)
(* negative or fractional numbers.                                         *)
(***************************************************************************)

IsDigit(c) == c # "" /\ Contains(Digits, c)
DigitVal(c) == (CHOOSE i \in 1..10 : CharAt(Digits, i) = c) - 1

RECURSIVE ScanStr(_, _)
\* position of the closing quote of a string whose body starts at i; 0 if none
ScanStr(text, i) ==
    IF i > Len(text) THEN 0
    ELSE IF CharAt(text, i) = "\"" THEN i
    ELSE IF CharAt(text, i) = "\\" THEN 0
    ELSE ScanStr(text, i + 1)

RECURSIVE ScanInt(_, _, _)
ScanInt(text, i, acc) ==
    IF i <= Len(text) /\ IsDigit(CharAt(text, i))
    THEN ScanInt(text, i + 1, acc * 10 + DigitVal(CharAt(text, i)))
    ELSE POk(JInt(acc), i)

RECURSIVE ParseValue(_, _)
RECURSIVE ParseElements(_, _, _)
RECURSIVE ParseMembers(_, _, _)

ParseValue(text, i) ==
    LET c == CharAt(text, i) IN
    IF i > Len(text) THEN PFail
    ELSE IF c = "\"" THEN
        LET e == ScanStr(text, i + 1) IN
        IF e = 0 THEN PFail ELSE POk(JStr(SubSeq(text, i + 1, e - 1)), e + 1)
    ELSE IF c = "{" THEN
        IF CharAt(text, i + 1) = "}" THEN POk(JDict(<< >>), i + 2)
        ELSE ParseMembers(text, i + 1, << >>)
    ELSE IF c = "[" THEN
        IF CharAt(text, i + 1) = "]" THEN POk(JList(<< >>), i + 2)
        ELSE ParseElements(text, i + 1, << >>)
    ELSE IF Slice(text, i, i + 3) = "null" THEN POk(JNone, i + 4)
    ELSE IF Slice(text, i, i + 3) = "true" THEN POk(JBool(TRUE), i + 4)
    ELSE IF Slice(text, i, i + 4) = "false" THEN POk(JBool(FALSE), i + 5)
    ELSE IF IsDigit(c) THEN ScanInt(text, i, 0)
    ELSE PFail

ParseElements(text, i, acc) ==
    LET r == ParseValue(text, i) IN
    IF ~r.ok THEN PFail
    ELSE IF CharAt(text, r.next) = "," THEN ParseElements(text, r.next + 1, Append(acc, r.v))
    ELSE IF CharAt(text, r.next) = "]" THEN POk(JList(Append(acc, r.v)), r.next + 1)
    ELSE PFail

ParseMembers(text, i, acc) ==
    LET k == ParseValue(text, i) IN
    IF ~k.ok \/ k.v.t # "str" \/ CharAt(text, k.next) # ":" THEN PFail
    ELSE LET r == ParseValue(text, k.next + 1)
             m == Member(k.v.s, r.v)
         IN  IF ~r.ok THEN PFail
             ELSE IF CharAt(text, r.next) = "," THEN ParseMembers(text, r.next + 1, Append(acc, m))
             ELSE IF CharAt(text, r.next) = "}" THEN POk(JDict(Append(acc, m)), r.next + 1)
             ELSE PFail

\* json.loads(text): ok is FALSE where Python raises JSONDecodeError
JsonLoads(text) ==
    LET r == ParseValue(text, 1) IN
    IF r.ok /\ r.next = Len(text) + 1 THEN r ELSE PFail

(***************************************************************************)
(* Python subscription and dict.get on parsed values.  The messages of the *)
(* exceptions are those of CPython 3.11.                                   *)
(***************************************************************************)

HasKey(d, k) == \E i \in 1..Len(d.items) : d.items[i].k = k
\* a repeated key keeps its last value
Lookup(d, k) ==
    d.items[CHOOSE i \in 1..Len(d.items) :
               d.items[i].k = k /\ \A j \in (i + 1)..Len(d.items) : d.items[j].k # k].v

NotSubscriptable(v) ==
    Raise("TypeError", "'" \o (IF v.t = "None" THEN "NoneType" ELSE v.t)
                           \o "' object is not subscriptable")

\* v[k] for a str key k
GetItemStr(v, k) ==
    IF v.t = "dict" THEN
        IF HasKey(v, k) THEN Value(Lookup(v, k)) ELSE Raise("KeyError", "'" \o k \o "'")
    ELSE IF v.t = "list" THEN Raise("TypeError", "list indices must be integers or slices, not str")
    ELSE IF v.t = "str" THEN Raise("TypeError", "string indices must be integers, not 'str'")
    ELSE NotSubscriptable(v)

\* v[0]
GetItemZero(v) ==
    IF v.t = "list" THEN
        IF Len(v.items) > 0 THEN Value(v.items[1]) ELSE Raise("IndexError", "list index out of range")
    ELSE IF v.t = "str" THEN
        IF Len(v.s) > 0 THEN Value(JStr(CharAt(v.s, 1))) ELSE Raise("IndexError", "string index out of range")
    ELSE IF v.t = "dict" THEN Raise("KeyError", "0")
    ELSE NotSubscriptable(v)

\* v.get(k, default): only a dict has the method
DictGet(v, k, default) ==
    IF v.t # "dict" THEN Raise("AttributeError", "object has no attribute 'get'")
    ELSE IF HasKey(v, k) THEN Value(Lookup(v, k))
    ELSE Value(default)

\* str(v) as an f-string field renders it, for the scalar values
PyStr(v) ==
    IF v.t = "str" THEN v.s
    ELSE IF v.t = "int" THEN IntToStr(v.n)
    ELSE IF v.t = "bool" THEN (IF v.n = 1 THEN "True" ELSE "False")
    ELSE IF v.t = "None" THEN "None"
    ELSE IF v.t = "list" /\ v.items = << >> THEN "[]"
    ELSE IF v.t = "dict" /\ v.items = << >> THEN "{}"
    ELSE "<repr>"

\* the exception classes the model raises, each with its base class
BaseOf(cls) ==
    CASE cls = "ReadTimeout"     -> "Timeout"
      [] cls = "ConnectTimeout"  -> "Timeout"
      [] cls = "Timeout"         -> "RequestException"
      [] cls = "ConnectionError" -> "RequestException"
      [] cls = "InvalidHeader"   -> "RequestException"
      [] cls = "JSONDecodeError" -> "RequestException"
      [] cls = "RequestException" -> "Exception"
      [] cls = "KeyError"        -> "Exception"
      [] cls = "IndexError"      -> "Exception"
      [] cls = "TypeError"       -> "Exception"
      [] cls = "AttributeError"  -> "Exception"
      [] OTHER                   -> ""

RECURSIVE IsSubclass(_, _)
IsSubclass(cls, base) ==
    IF cls = base THEN TRUE
    ELSE IF BaseOf(cls) = "" THEN FALSE
    ELSE IsSubclass(BaseOf(cls), base)

(***************************************************************************)
(* OpenRouterRecipeGenerator.generate_recipe                               *)
(***************************************************************************)

Any == "Any"

\* the diet clause appended to the original string instead of the enhanced one
EnhancedIngredients_NotAdditive(ingredients, cuisine, diet) ==
    LET e0 == ingredients
        e1 == IF cuisine # Any THEN e0 \o ", " \o Lower(cuisine) \o " cuisine style" ELSE e0
        e2 == IF diet # Any THEN e0 \o ", " \o Lower(diet) \o " diet" ELSE e1
    IN  e2

\* lines 96-100
EnhancedIngredients(ingredients, cuisine, diet) ==
    LET e0 == ingredients
        e1 == IF cuisine # Any THEN e0 \o ", " \o Lower(cuisine) \o " cuisine style" ELSE e0
        e2 == IF diet # Any THEN e1 \o ", " \o Lower(diet) \o " diet" ELSE e1
    IN  e2

PromptHead == "\nCreate a detailed, practical recipe using mainly these ingredients: "

PromptTail ==
    ".\n\nIMPORTANT: Use this exact format:\n\nRECIPE NAME: [Creative name]\n"
    \o "PREP TIME: [e.g., 15 minutes]\nCOOK TIME: [e.g., 30 minutes]\n"
    \o "DIFFICULTY: [Easy/Medium/Hard]\nSERVINGS: [number]\n\nINGREDIENTS:\n"
    \o "- [Specific quantities and ingredients]\n"
    \o "- [You can add basic pantry items like salt, oil, etc.]\n\nINSTRUCTIONS:\n"
    \o "1. [Clear step-by-step instructions]\n2. [Number each step]\n"
    \o "3. [Be specific with cooking times and temperatures]\n\n"
    \o "NUTRITIONAL INFO (per serving):\n- Calories: [estimate]\n- Protein: [g]\n"
    \o "- Carbohydrates: [g]\n- Fat: [g]\n\nTIPS: [Practical cooking tips]\n\n"
    \o "Make the recipe realistic for home cooking.\n"

\* lines 102-131
Prompt(ingredients, cuisine, diet) ==
    PromptHead \o EnhancedIngredients(ingredients, cuisine, diet) \o PromptTail

MaxTokens == 1500
RequestTimeout == 30

\* lines 133-141: the request handed to requests.post
Payload(ingredients, cuisine, diet) ==
    ChatRequest("meta-llama/llama-3-70b-instruct:free",
                << Message("user", Prompt(ingredients, cuisine, diet)) >>,
                MaxTokens, RequestTimeout)

\* the content returned stripped
OnStatus200_Stripped(text) ==
    LET result == JsonLoads(text) IN
    IF ~result.ok THEN Raise("JSONDecodeError", "Expecting value: line 1 column 1 (char 0)")
    ELSE LET choices == GetItemStr(result.v, "choices") IN
         IF choices.raised THEN choices
         ELSE LET first == GetItemZero(choices.v) IN
              IF first.raised THEN first
              ELSE LET message == GetItemStr(first.v, "message") IN
                   IF message.raised THEN message
                   ELSE LET content == GetItemStr(message.v, "content") IN
                        IF content.raised \/ content.v.t # "str" THEN content
                        ELSE Value(JStr(Strip(content.v.s)))

\* lines 143-145: the status-200 branch
OnStatus200(text) ==
    LET result == JsonLoads(text) IN
    IF ~result.ok THEN Raise("JSONDecodeError", "Expecting value: line 1 column 1 (char 0)")
    ELSE LET choices == GetItemStr(result.v, "choices") IN
         IF choices.raised THEN choices
         ELSE LET first == GetItemZero(choices.v) IN
              IF first.raised THEN first
              ELSE LET message == GetItemStr(first.v, "message") IN
                   IF message.raised THEN message
                   ELSE GetItemStr(message.v, "content")

\* the inner except narrowed to the decoding error
ErrorDetail_NarrowExcept(text) ==
    LET error_detail == JsonLoads(text) IN
    IF ~error_detail.ok THEN text
    ELSE LET error == DictGet(error_detail.v, "error", JDict(<< >>)) IN
         IF error.raised THEN error.msg
         ELSE LET message == DictGet(error.v, "message", JStr("Unknown error")) IN
              IF message.raised THEN message.msg
              ELSE PyStr(message.v)

\* lines 148-152: the detail appended to error_msg; the bare except takes
\* every failure of the try body to the raw response text
ErrorDetail(text) ==
    LET error_detail == JsonLoads(text) IN
    IF ~error_detail.ok THEN text
    ELSE LET error == DictGet(error_detail.v, "error", JDict(<< >>)) IN
         IF error.raised THEN text
         ELSE LET message == DictGet(error.v, "message", JStr("Unknown error")) IN
              IF message.raised THEN text
              ELSE PyStr(message.v)

\* lines 146-153: the branch of every other status
OnOtherStatus(status_code, text) ==
    Value(JStr("API Error: " \o IntToStr(status_code) \o " - " \o ErrorDetail(text)))

\* lines 141-153: what the try body does with the outcome of requests.post
TryBody(o) ==
    IF o.kind = "raise" THEN Raise(o.cls, o.msg)
    ELSE IF o.status_code = 200 THEN OnStatus200(o.text)
    ELSE OnOtherStatus(o.status_code, o.text)

\* the catch-all clause placed first
ExceptClauses_CatchAllFirst(r) ==
    IF ~r.raised THEN r
    ELSE IF IsSubclass(r.cls, "Exception")
         THEN Value(JStr(FailureGlyph \o " Error: " \o r.msg))
    ELSE IF IsSubclass(r.cls, "Timeout")
         THEN Value(JStr(FailureGlyph \o " Request timed out. Please try again."))
    ELSE r

\* the generic message without the glyph
ExceptClauses_NoGlyph(r) ==
    IF ~r.raised THEN r
    ELSE IF IsSubclass(r.cls, "Timeout")
         THEN Value(JStr(FailureGlyph \o " Request timed out. Please try again."))
    ELSE IF IsSubclass(r.cls, "Exception")
         THEN Value(JStr("Error: " \o r.msg))
    ELSE r

\* the second clause narrowed to requests.exceptions.RequestException
ExceptClauses_RequestsOnly(r) ==
    IF ~r.raised THEN r
    ELSE IF IsSubclass(r.cls, "Timeout")
         THEN Value(JStr(FailureGlyph \o " Request timed out. Please try again."))
    ELSE IF IsSubclass(r.cls, "RequestException")
         THEN Value(JStr(FailureGlyph \o " Error: " \o r.msg))
    ELSE r

\* the second clause left out
ExceptClauses_TimeoutOnly(r) ==
    IF ~r.raised THEN r
    ELSE IF IsSubclass(r.cls, "Timeout")
         THEN Value(JStr(FailureGlyph \o " Request timed out. Please try again."))
    ELSE r

\* lines 155-158: the except clauses, tried in order
ExceptClauses(r) ==
    IF ~r.raised THEN r
    ELSE IF IsSubclass(r.cls, "Timeout")
         THEN Value(JStr(FailureGlyph \o " Request timed out. Please try again."))
    ELSE IF IsSubclass(r.cls, "Exception")
         THEN Value(JStr(FailureGlyph \o " Error: " \o r.msg))
    ELSE r

\* lines 93-158, from the return of requests.post on
GenerateRecipe(o) == ExceptClauses(TryBody(o))

(***************************************************************************)
(* main(): the widgets, the Generate branch and the rendering of the       *)
(* result.                                                                 *)
(***************************************************************************)

\* line 222
Cuisines == {"Any", "Italian", "Mexican", "Asian", "Indian", "Mediterranean",
             "American", "French", "Thai"}
\* line 229
Diets == {"Any", "Vegetarian", "Vegan", "Gluten-free", "Low-carb", "Dairy-free", "Keto"}
\* lines 191-196
QuickExamples == {"chicken, rice, vegetables", "pasta, tomatoes, garlic, basil",
                  "tofu, broccoli, carrots, rice"}

\* the emptiness test without the strip
IsBlank_NoStrip(ingredients) == ingredients = ""

\* line 248
IsBlank(ingredients) == Strip(ingredients) = ""

\* the timeout test made case-sensitive
IsFailure_CaseSensitive(recipe) ==
    \/ StartsWith(recipe, FailureGlyph)
    \/ Contains(recipe, "Error")
    \/ Contains(recipe, "timeout")

\* the test for "Error" left out
IsFailure_GlyphOnly(recipe) ==
    \/ StartsWith(recipe, FailureGlyph)
    \/ Contains(Lower(recipe), "timeout")

\* line 261
IsFailure(recipe) ==
    \/ StartsWith(recipe, FailureGlyph)
    \/ Contains(recipe, "Error")
    \/ Contains(Lower(recipe), "timeout")

\* lines 252-281: what the page shows for the result r of generate_recipe
Render(r) ==
    IF r.raised
    THEN View("fault", FailureGlyph \o " Unexpected error: " \o r.msg, FALSE)
    ELSE IF r.v.t # "str"
    THEN View("fault", FailureGlyph \o " Unexpected error: '"
                       \o (IF r.v.t = "None" THEN "NoneType" ELSE r.v.t)
                       \o "' object has no attribute 'startswith'", FALSE)
    ELSE IF IsFailure(r.v.s) THEN View("error", r.v.s, FALSE)
    ELSE View("success", r.v.s, TRUE)

(***************************************************************************)
(* The inputs: what the user types and what the HTTP layer answers.        *)
(***************************************************************************)

MaxPieces == 2

\* fragments whose concatenations hit and miss each test of line 261
Pieces == {"#", "Err", "or ", "time", "Out"}

RECURSIVE TextsOfLen(_)
TextsOfLen(n) ==
    IF n = 0 THEN {""} ELSE {t \o p : t \in TextsOfLen(n - 1), p \in Pieces}

Texts == UNION {TextsOfLen(n) : n \in 0..MaxPieces}

\* str(e) of the exceptions requests.post raises
Messages == UNION {TextsOfLen(n) : n \in 0..(MaxPieces - 1)}

TypedIngredients == {"", " \t\n", "chicken, rice"}

\* a completion body as the endpoint sends it, with the given message content
CompletionBody(content) ==
    "{\"id\":\"gen-1\",\"choices\":[{\"index\":0,\"message\":{\"role\":\"assistant\",\"content\":\""
    \o content \o "\"}}]}"

\* status-200 bodies without the expected fields
MalformedBodies ==
    { "", "<html>", "{}", "[]", "null", "{\"choices\":[]}", "{\"choices\":null}",
      "{\"choices\":{}}", "{\"choices\":[{}]}", "{\"choices\":[{\"message\":{}}]}",
      "{\"choices\":[{\"message\":null}]}", "{\"choices\":\"\"}",
      "{\"error\":{\"message\":\"rate limited\",\"code\":429}}" }

\* status-200 bodies whose content is not a string
NonTextBodies ==
    { "{\"choices\":[{\"message\":{\"content\":null}}]}",
      "{\"choices\":[{\"message\":{\"content\":7}}]}" }

ErrorBodies ==
    { "{\"error\":{\"message\":\"rate limited\"}}",
      "{\"error\":{\"message\":\"No auth credentials found\",\"code\":401}}",
      "{\"error\":{\"code\":429}}", "{\"error\":{}}", "{}", "{\"detail\":\"gone\"}",
      "{\"error\":\"rate limited\"}", "{\"error\":null}", "{\"error\":[]}",
      "{\"error\":{\"message\":null}}", "{\"error\":{\"message\":503}}",
      "[]", "[{\"error\":{\"message\":\"x\"}}]", "\"oops\"", "7", "null",
      "internal error", "<html>Bad Gateway</html>", "{\"error\":{\"message\":\"cut",
      "", "#", "time" }

\* the statuses and bodies the endpoint answers with when it refuses
ErrorResponses ==
    {<<500, b>> : b \in ErrorBodies}
    \cup {<<st, "{\"error\":{\"message\":\"rate limited\"}}">> : st \in {400, 401, 429}}
    \cup {<<st, "internal error">> : st \in {201, 503}}
    \cup {<<204, "">>}

TimeoutClasses == {"Timeout", "ReadTimeout", "ConnectTimeout"}
Failures ==
    {<<"ConnectionError", m>> : m \in Messages}
    \cup {<<"InvalidHeader", "Invalid leading whitespace, reserved character(s), or return character(s) in header value">>}

NoRequest == ChatRequest("", << >>, 0, 0)
NoResult == Value(JNone)

VARIABLES
    ingredients,   \* st.session_state.ingredients, the text area
    cuisine,       \* the cuisine selectbox
    diet,          \* the diet selectbox
    pc,            \* "idle": a run without Generate ended; "posting": inside
                   \* requests.post; "shown": a run with Generate ended
    posts,         \* calls of requests.post made by the current run
    request,       \* the payload of the last call
    outcome,       \* what the call produced
    recipe,        \* what generate_recipe returned or raised
    panel,         \* "info", "validation", "error", "success" or "fault"
    shown,         \* the text in the panel
    download       \* whether the download button is rendered

vars == <<ingredients, cuisine, diet, pc, posts, request, outcome, recipe,
          panel, shown, download>>

\* lines 284-290: a run of the script in which Generate was not clicked
RunWithoutGenerate ==
    /\ pc' = "idle"
    /\ posts' = 0
    /\ request' = NoRequest
    /\ outcome' = NoOutcome
    /\ recipe' = NoResult
    /\ panel' = "info"
    /\ shown' = ""
    /\ download' = FALSE

Init ==
    /\ ingredients = ""
    /\ cuisine = Any
    /\ diet = Any
    /\ pc = "idle"
    /\ posts = 0
    /\ request = NoRequest
    /\ outcome = NoOutcome
    /\ recipe = NoResult
    /\ panel = "info"
    /\ shown = ""
    /\ download = FALSE

\* lines 191-196: a sidebar example button
QuickExample ==
    /\ pc # "posting"
    /\ \E e \in QuickExamples : ingredients' = e
    /\ UNCHANGED <<cuisine, diet>>
    /\ RunWithoutGenerate

\* lines 206-212: the text area
EditIngredients ==
    /\ pc # "posting"
    /\ \E t \in TypedIngredients : ingredients' = t
    /\ UNCHANGED <<cuisine, diet>>
    /\ RunWithoutGenerate

\* lines 220-224
SelectCuisine ==
    /\ pc # "posting"
    /\ \E c \in Cuisines : cuisine' = c
    /\ UNCHANGED <<ingredients, diet>>
    /\ RunWithoutGenerate

\* lines 227-231
SelectDiet ==
    /\ pc # "posting"
    /\ \E d \in Diets : diet' = d
    /\ UNCHANGED <<ingredients, cuisine>>
    /\ RunWithoutGenerate

\* lines 247-249: Generate clicked with blank ingredients
GenerateBlank ==
    /\ pc # "posting"
    /\ IsBlank(ingredients)
    /\ pc' = "shown"
    /\ posts' = 0
    /\ request' = NoRequest
    /\ outcome' = NoOutcome
    /\ recipe' = NoResult
    /\ panel' = "validation"
    /\ shown' = FailureGlyph \o " Please enter some ingredients!"
    /\ download' = FALSE
    /\ UNCHANGED <<ingredients, cuisine, diet>>

\* lines 247-255 and 93-141: Generate clicked, up to the call of requests.post
GeneratePost ==
    /\ pc # "posting"
    /\ ~IsBlank(ingredients)
    /\ pc' = "posting"
    /\ posts' = 1
    /\ request' = Payload(ingredients, cuisine, diet)
    /\ outcome' = NoOutcome
    /\ recipe' = NoResult
    /\ panel' = "spinner"
    /\ shown' = ""
    /\ download' = FALSE
    /\ UNCHANGED <<ingredients, cuisine, diet>>

\* lines 141-158 and 258-281: requests.post ends with outcome o; generate_recipe
\* returns and the page is rendered
Complete(o) ==
    /\ pc = "posting"
    /\ pc' = "shown"
    /\ outcome' = o
    /\ recipe' = GenerateRecipe(o)
    /\ LET view == Render(recipe') IN
        /\ panel' = view.panel
        /\ shown' = view.shown
        /\ download' = view.download
    /\ UNCHANGED <<ingredients, cuisine, diet, posts, request>>

\* the endpoint answers 200 with a completion
RespondCompletion == \E c \in Texts : Complete(Response(200, CompletionBody(c)))

\* the endpoint answers 200 with another body
RespondMalformed == \E b \in MalformedBodies \cup NonTextBodies : Complete(Response(200, b))

\* the endpoint answers with another status
RespondStatus == \E r \in ErrorResponses : Complete(Response(r[1], r[2]))

\* no answer within the timeout of line 141
RequestTimesOut == \E cls \in TimeoutClasses : Complete(Raised(cls, "timed out"))

\* requests.post raises another exception
RequestFails == \E e \in Failures : Complete(Raised(e[1], e[2]))

Next ==
    \/ QuickExample
    \/ EditIngredients
    \/ SelectCuisine
    \/ SelectDiet
    \/ GenerateBlank
    \/ GeneratePost
    \/ RespondCompletion
    \/ RespondMalformed
    \/ RespondStatus
    \/ RequestTimesOut
    \/ RequestFails

Spec == Init /\ [][Next]_vars

(***************************************************************************)
(* The properties.                                                         *)
(***************************************************************************)

Shown == pc = "shown" /\ outcome.kind # "none"
Refused == Shown /\ outcome.kind = "response" /\ outcome.status_code # 200
TimedOut == Shown /\ outcome.kind = "raise" /\ outcome.cls \in TimeoutClasses
Failed == Shown /\ outcome.kind = "raise" /\ outcome.cls \notin TimeoutClasses
Returned(text) == recipe = Value(JStr(text))

\* C1: a run with Generate clicked calls requests.post no times when the
\* ingredients are empty after stripping (the validation message is shown
\* instead) and exactly once otherwise, whatever the call produced.
C1_OnePostPerGenerate ==
    /\ pc = "idle" => posts = 0
    /\ pc = "posting" => posts = 1 /\ Strip(ingredients) # ""
    /\ pc = "shown" => posts = (IF Strip(ingredients) = "" THEN 0 ELSE 1)
    /\ (pc = "shown" /\ Strip(ingredients) = "") =>
            panel = "validation" /\ outcome.kind = "none" /\ request = NoRequest
    /\ Shown => posts = 1

C1_Witness ==
    /\ pc = "shown" /\ posts = 1 /\ outcome.kind = "raise"
    /\ outcome.cls = "ConnectionError"

\* C2: on status 200 with a well-formed completion body generate_recipe
\* returns the content of the first choice's message, character for character.
C2_ContentUnmodified ==
    \A c \in Texts :
        (Shown /\ outcome = Response(200, CompletionBody(c))) => Returned(c)

C2_Witness ==
    Shown /\ outcome = Response(200, CompletionBody("#or ")) /\ Returned("#or ")

\* the members of a parsed body that the statement of C3 speaks of
BodyIsObject(j) == j.ok /\ j.v.t = "dict"
ErrorMember(j) == Lookup(j.v, "error")
HasErrorObject(j) == BodyIsObject(j) /\ HasKey(j.v, "error") /\ ErrorMember(j).t = "dict"
HasErrorMessage(j) == HasErrorObject(j) /\ HasKey(ErrorMember(j), "message")
ApiError(status_code, detail) == "API Error: " \o IntToStr(status_code) \o " - " \o detail

\* C3 as stated: on a status other than 200 the result is
\* "API Error: <status> - <detail>", the detail being the body's error.message
\* whenever the body parses as JSON and the raw body when it does not.
C3_AsStated ==
    Refused =>
        LET j == JsonLoads(outcome.text) IN
        IF j.ok
        THEN /\ HasErrorMessage(j)
             /\ Returned(ApiError(outcome.status_code, PyStr(Lookup(ErrorMember(j), "message"))))
        ELSE Returned(ApiError(outcome.status_code, outcome.text))

\* C3 amended: on a status other than 200 the result is
\* "API Error: <status> - <detail>"; the detail is str() of error.message when
\* the body is a JSON object whose error member is an object with a message,
\* "Unknown error" when the body is a JSON object without an error member or
\* whose error object has no message, and the raw body when the body is not
\* JSON or when the body or its error member is JSON but not an object.
C3_ErrorDetail ==
    Refused =>
        LET j == JsonLoads(outcome.text)
            detail ==
                IF HasErrorMessage(j) THEN PyStr(Lookup(ErrorMember(j), "message"))
                ELSE IF HasErrorObject(j) THEN "Unknown error"
                ELSE IF BodyIsObject(j) /\ ~HasKey(j.v, "error") THEN "Unknown error"
                ELSE outcome.text
        IN  /\ Returned(ApiError(outcome.status_code, detail))
            /\ outcome = Response(429, "{\"error\":{\"message\":\"rate limited\"}}")
                    => Returned("API Error: 429 - rate limited")
            /\ outcome = Response(500, "internal error")
                    => Returned("API Error: 500 - internal error")
            /\ outcome = Response(500, "{}") => Returned("API Error: 500 - Unknown error")
            /\ outcome = Response(500, "[]") => Returned("API Error: 500 - []")

C3_Witness ==
    /\ Refused /\ outcome.text = "{\"error\":null}"
    /\ Returned("API Error: 500 - {\"error\":null}")

\* C4: when the request times out generate_recipe returns the fixed timeout
\* message and not the "Error: <message>" form of the catch-all clause; the
\* request is made with the timeout of 30 seconds.
C4_TimeoutMessage ==
    /\ pc = "posting" => request.timeout = 30
    /\ TimedOut =>
        /\ Returned(FailureGlyph \o " Request timed out. Please try again.")
        /\ ~Contains(recipe.v.s, "Error: ")

C4_Witness == TimedOut /\ outcome.cls = "ReadTimeout" /\ panel = "error"

IsFailureOutcome == Refused \/ TimedOut \/ Failed

\* C5 as stated: every failure result is a string that starts with the
\* failure glyph.
C5_AsStated ==
    IsFailureOutcome => recipe.v.t = "str" /\ StartsWith(recipe.v.s, FailureGlyph)

\* C5 amended: every failure result is a plain string; the Timeout and
\* Unexpected results start with the failure glyph and a space, the HttpError
\* result starts with "API Error: " and not with the glyph.
C5_FailureStrings ==
    /\ IsFailureOutcome => ~recipe.raised /\ recipe.v.t = "str"
    /\ TimedOut => Slice(recipe.v.s, 1, 2) = FailureGlyph \o " "
    /\ Failed => Slice(recipe.v.s, 1, 2) = FailureGlyph \o " "
    /\ Refused => Slice(recipe.v.s, 1, 11) = "API Error: "

C5_Witness ==
    /\ Failed /\ outcome.msg = "time" /\ Returned(FailureGlyph \o " Error: time")

Malformed == Shown /\ outcome.kind = "response" /\ outcome.status_code = 200
             /\ outcome.text \in MalformedBodies

\* C6 as stated: on status 200 with a body that lacks the expected fields the
\* fault leaves generate_recipe uncaught.
C6_AsStated == Malformed => recipe.raised

\* C6 amended: on status 200 with a body that lacks the expected fields the
\* fault is caught by the catch-all clause of generate_recipe and returned as
\* the string "<glyph> Error: <text of the exception>", which the page shows
\* in the failure panel.
C6_MalformedCaught ==
    /\ Malformed =>
        /\ ~recipe.raised /\ recipe.v.t = "str"
        /\ Slice(recipe.v.s, 1, 9) = FailureGlyph \o " Error: "
        /\ panel = "error" /\ ~download
    /\ (Shown /\ outcome = Response(200, "{}"))
            => Returned(FailureGlyph \o " Error: 'choices'")
    /\ (Shown /\ outcome = Response(200, "{\"choices\":[]}"))
            => Returned(FailureGlyph \o " Error: list index out of range")
    /\ (Shown /\ outcome = Response(200, "{\"choices\":[{}]}"))
            => Returned(FailureGlyph \o " Error: 'message'")
    /\ (Shown /\ outcome = Response(200, "{\"choices\":[{\"message\":{}}]}"))
            => Returned(FailureGlyph \o " Error: 'content'")

C6_Witness ==
    /\ Malformed /\ outcome.text = "{\"choices\":[{\"message\":{}}]}"
    /\ shown = FailureGlyph \o " Error: 'content'"

\* C7: on a timeout, a status other than 200 or any other exception of
\* requests.post, generate_recipe returns a string and raises nothing, so the
\* page never takes the path of a raised fault.
C7_NeverRaises ==
    IsFailureOutcome =>
        /\ ~recipe.raised
        /\ recipe.v.t = "str"
        /\ Len(recipe.v.s) > 0
        /\ panel # "fault"

C7_Witness == Failed /\ outcome.cls = "InvalidHeader" /\ ~recipe.raised

\* the rule of C8, on windows of the text
ClaimedFailure(text) ==
    \/ CharAt(text, 1) = FailureGlyph
    \/ \E i \in 1..Len(text) : Slice(text, i, i + 4) = "Error"
    \/ \E i \in 1..Len(text) : Lower(Slice(text, i, i + 6)) = "timeout"

\* C8: a returned string is shown as a failure exactly when it starts with the
\* glyph, or contains "Error", or contains "timeout" in any letter case; the
\* success panel and the download button are rendered exactly when it is not,
\* so a status-200 text that contains "Error" is shown as a failure.
C8_Classification ==
    (Shown /\ ~recipe.raised /\ recipe.v.t = "str") =>
        /\ panel \in {"error", "success"}
        /\ panel = "error" <=> ClaimedFailure(recipe.v.s)
        /\ panel = "success" <=> download
        /\ shown = recipe.v.s
        /\ outcome = Response(200, CompletionBody("Error ")) => panel = "error" /\ ~download

C8_Witness ==
    /\ Shown /\ outcome = Response(200, CompletionBody("Error "))
    /\ panel = "error" /\ ~download /\ shown = "Error "

C8_WitnessSuccess ==
    /\ Shown /\ outcome = Response(200, CompletionBody("or #"))
    /\ panel = "success" /\ download

\* the lower-cased option names, written out
LowerName(option) ==
    CASE option = "Italian" -> "italian"
      [] option = "Mexican" -> "mexican"
      [] option = "Asian" -> "asian"
      [] option = "Indian" -> "indian"
      [] option = "Mediterranean" -> "mediterranean"
      [] option = "American" -> "american"
      [] option = "French" -> "french"
      [] option = "Thai" -> "thai"
      [] option = "Vegetarian" -> "vegetarian"
      [] option = "Vegan" -> "vegan"
      [] option = "Gluten-free" -> "gluten-free"
      [] option = "Low-carb" -> "low-carb"
      [] option = "Dairy-free" -> "dairy-free"
      [] option = "Keto" -> "keto"
      [] OTHER -> option

CuisineClause == IF cuisine # "Any" THEN ", " \o LowerName(cuisine) \o " cuisine style" ELSE ""
PromptSent == request.messages[1].content
Embeds(enhanced) == PromptSent = PromptHead \o enhanced \o PromptTail

\* C9 as stated: the enhanced string is the ingredients, then
\* ", <lower-cased cuisine> cuisine style" iff cuisine is not "Any", then
\* ", <diet> diet" with the diet as selected iff diet is not "Any".
C9_AsStated ==
    pc = "posting" =>
        Embeds(ingredients \o CuisineClause
               \o (IF diet # "Any" THEN ", " \o diet \o " diet" ELSE ""))

\* C9 amended: the enhanced string is the ingredients verbatim, then
\* ", <lower-cased cuisine> cuisine style" iff cuisine is not "Any", then
\* ", <lower-cased diet> diet" iff diet is not "Any", the cuisine clause first;
\* ("chicken, rice", "Italian", "Any") gives a prompt with
\* "chicken, rice, italian cuisine style" and no diet clause, and
\* (i, "Any", "Any") embeds exactly i.
C9_EnhancedIngredients ==
    pc = "posting" =>
        /\ Embeds(ingredients \o CuisineClause
                  \o (IF diet # "Any" THEN ", " \o LowerName(diet) \o " diet" ELSE ""))
        /\ (ingredients = "chicken, rice" /\ cuisine = "Italian" /\ diet = "Any") =>
                /\ Contains(PromptSent, "chicken, rice, italian cuisine style")
                /\ ~Contains(PromptSent, " diet")
        /\ (cuisine = "Any" /\ diet = "Any") => Embeds(ingredients)

C9_Witness ==
    /\ pc = "posting" /\ ingredients = "chicken, rice"
    /\ cuisine = "Italian" /\ diet = "Gluten-free"
    /\ Contains(PromptSent, "chicken, rice, italian cuisine style, gluten-free diet.")

\* C10: every string generate_recipe returns on a failure path is shown as a
\* failure: after a failed request the success panel and the download button
\* are not rendered.
C10_FailuresShownAsFailures ==
    IsFailureOutcome =>
        /\ panel = "error"
        /\ ~download
        /\ shown = recipe.v.s

C10_Witness ==
    /\ Refused /\ outcome = Response(204, "")
    /\ Returned("API Error: 204 - ") /\ panel = "error"

=============================================================================
